---- MODULE Spec2Model ----
(***************************************************************************)
(* Model of opcua_plugin/core_read.go: the value decoder                   *)
(* OPCUAConnection.getBytesFromValue and the read coordinator              *)
(* OPCUAConnection.Read.                                                   *)
(*                                                                         *)
(* Byte slices are records [nil, data]: Go distinguishes a nil slice from  *)
(* an empty non-nil one, and the decoder's final guard tests for nil.      *)
(* Integers wider than TLC's own are sequences of 16-bit limbs, most       *)
(* significant first.                                                      *)
(***************************************************************************)
EXTENDS Integers, Sequences, FiniteSets, TLC

VARIABLES
    dataValue,    \* the *ua.DataValue handed to getBytesFromValue
    decoded,      \* what getBytesFromValue did with it: outcome, b, tagType, logs
    dpc,          \* "call" before getBytesFromValue has run, "done" after
    last,         \* the most recent Read call: its inputs and results
    reads,        \* number of Read calls made so far
    closeCalls,   \* number of times g.Close has been invoked, over all calls
    fatalReads    \* number of Read calls whose failure matched a session-fatal code

vars == <<dataValue, decoded, dpc, last, reads, closeCalls, fatalReads>>

(***************************************************************************)
(* Bounds of the model.                                                    *)
(***************************************************************************)
MaxReads == 3
MaxArrayLen == 3
MaxWrap == 2

(***************************************************************************)
(* Byte slices.                                                            *)
(***************************************************************************)
NilBytes == [nil |-> TRUE, data |-> <<>>]

\* b := make([]byte, 0): an empty slice that is not nil
MakeBytes == [nil |-> FALSE, data |-> <<>>]

\* append(b, xs...): appending to a non-nil slice never yields nil;
\* appending nothing to a nil slice leaves it nil
AppendBytes(b, xs) ==
    [nil |-> b.nil /\ Len(xs) = 0, data |-> b.data \o xs]

(***************************************************************************)
(* Multi-limb unsigned arithmetic (limbs of 16 bits, most significant      *)
(* first), as needed by strconv.FormatInt / strconv.FormatUint in base 10. *)
(***************************************************************************)
LimbBase == 256 * 256
LimbMax == LimbBase - 1

DigitChars == <<"0", "1", "2", "3", "4", "5", "6", "7", "8", "9">>

IsZeroLimbs(u) == \A i \in 1..Len(u) : u[i] = 0

\* quotient limbs of u divided by ten, carrying the remainder rem in from the left
RECURSIVE DivTen(_, _)
DivTen(u, rem) ==
    IF Len(u) = 0 THEN <<>>
    ELSE LET t == rem * LimbBase + Head(u)
         IN  <<t \div 10>> \o DivTen(Tail(u), t % 10)

\* remainder of u divided by ten
RECURSIVE ModTen(_, _)
ModTen(u, rem) ==
    IF Len(u) = 0 THEN rem
    ELSE ModTen(Tail(u), (rem * LimbBase + Head(u)) % 10)

\* the digits of a non-zero u, most significant first; <<>> for zero
RECURSIVE DigitsOf(_)
DigitsOf(u) ==
    IF IsZeroLimbs(u) THEN <<>>
    ELSE DigitsOf(DivTen(u, 0)) \o <<DigitChars[ModTen(u, 0) + 1]>>

\* strconv.FormatUint(u, 10) on a 64-bit pattern
FormatUint(u) ==
    IF IsZeroLimbs(u) THEN <<"0">> ELSE DigitsOf(u)

\* u + 1 modulo 2^(16 * Len(u))
RECURSIVE IncLimbs(_)
IncLimbs(u) ==
    IF Len(u) = 0 THEN <<>>
    ELSE LET n == Len(u)
             front == SubSeq(u, 1, n - 1)
         IN  IF u[n] = LimbMax THEN IncLimbs(front) \o <<0>>
             ELSE front \o <<u[n] + 1>>

\* two's complement negation of a 64-bit pattern (Go: u = -u on uint64)
NegateLimbs(u) == IncLimbs([i \in 1..Len(u) |-> LimbMax - u[i]])

\* the sign bit of a 64-bit pattern read as int64
IsNegative64(i) == i[1] >= LimbBase \div 2

\* strconv.FormatInt(i, 10) on a 64-bit pattern
FormatInt(i) ==
    IF IsNegative64(i) THEN <<"-">> \o FormatUint(NegateLimbs(i))
    ELSE FormatUint(i)

(***************************************************************************)
(* Integer scalars: a Go value of type int8 .. int64, uint8 .. uint64, int *)
(* or uint is its bit pattern in its own width (one limb below 2^8 for the *)
(* 8-bit types, then 1, 2 or 4 limbs).                                     *)
(***************************************************************************)
IntTypes ==
    { [name |-> "int8",   signed |-> TRUE,  width |-> 8],
      [name |-> "int16",  signed |-> TRUE,  width |-> 16],
      [name |-> "int32",  signed |-> TRUE,  width |-> 32],
      [name |-> "int64",  signed |-> TRUE,  width |-> 64],
      [name |-> "int",    signed |-> TRUE,  width |-> 32],
      [name |-> "int",    signed |-> TRUE,  width |-> 64],
      [name |-> "uint8",  signed |-> FALSE, width |-> 8],
      [name |-> "uint16", signed |-> FALSE, width |-> 16],
      [name |-> "uint32", signed |-> FALSE, width |-> 32],
      [name |-> "uint64", signed |-> FALSE, width |-> 64],
      [name |-> "uint",   signed |-> FALSE, width |-> 32],
      [name |-> "uint",   signed |-> FALSE, width |-> 64] }

\* bit patterns exercised per width: zero, small values, powers of ten, the
\* limb boundaries, the largest positive, the most negative and minus one
BitPatterns(width) ==
    CASE width = 8  -> { <<0>>, <<1>>, <<9>>, <<10>>, <<42>>, <<100>>, <<127>>,
                         <<128>>, <<214>>, <<255>> }
      [] width = 16 -> { <<0>>, <<7>>, <<1000>>, <<32767>>, <<32768>>,
                         <<65494>>, <<LimbMax>> }
      [] width = 32 -> { <<0, 0>>, <<0, 42>>, <<1, 0>>, <<32767, LimbMax>>,
                         <<32768, 0>>, <<LimbMax, 65494>>, <<LimbMax, LimbMax>> }
      [] width = 64 -> { <<0, 0, 0, 0>>, <<0, 0, 0, 42>>, <<0, 0, 1, 0>>,
                         <<0, 1, 0, 0>>, <<0, 0, LimbMax, LimbMax>>,
                         <<32767, LimbMax, LimbMax, LimbMax>>,
                         <<32768, 0, 0, 0>>,
                         <<LimbMax, LimbMax, LimbMax, 65494>>,
                         <<LimbMax, LimbMax, LimbMax, LimbMax>> }

IntValues ==
    UNION { { [type |-> t, bits |-> p] : p \in BitPatterns(t.width) } : t \in IntTypes }

\* whether the pattern, read in its own width as a signed value, is negative
TopBitSet(bits, width) ==
    IF width = 8 THEN bits[1] >= 128 ELSE bits[1] >= LimbBase \div 2

\* the pattern left-filled to four limbs with the limb fill
Extend(bits, width, fill) ==
    LET low == IF width = 8 /\ fill = LimbMax
               THEN <<LimbMax - 255 + bits[1]>>
               ELSE bits
    IN  [i \in 1..(4 - Len(low)) |-> fill] \o low

\* Go's conversion int64(v) of a signed value: sign extension
SignExtend(bits, width) ==
    Extend(bits, width, IF TopBitSet(bits, width) THEN LimbMax ELSE 0)

\* Go's conversion uint64(v) of an unsigned value: zero extension
ZeroExtend(bits, width) == Extend(bits, width, 0)

\* faulty variant: every integer case written as FormatUint(uint64(v), 10)
FormatIntegerUnsignedOnly(v) == FormatUint(ZeroExtend(v.bits, v.type.width))

\* the integer cases of the type switch: strconv.Itoa / FormatInt(int64(v), 10)
\* for the signed types, FormatUint(uint64(v), 10) for the unsigned ones
FormatInteger(v) ==
    IF v.type.signed
    THEN FormatInt(SignExtend(v.bits, v.type.width))
    ELSE FormatUint(ZeroExtend(v.bits, v.type.width))

(***************************************************************************)
(* Floating point scalars.  A float is NaN, an infinity, or a finite       *)
(* dyadic value (-1)^neg * num / 2^shift with a short exact decimal        *)
(* expansion; for those, strconv.FormatFloat(v, 'f', -1, bits) is the      *)
(* exact expansion.                                                        *)
(***************************************************************************)
Finite(neg, num, shift) ==
    [class |-> "finite", neg |-> neg, num |-> num, shift |-> shift]

NaN == [class |-> "nan", neg |-> FALSE, num |-> 0, shift |-> 0]
PosInf == [class |-> "inf", neg |-> FALSE, num |-> 0, shift |-> 0]
NegInf == [class |-> "inf", neg |-> TRUE, num |-> 0, shift |-> 0]

\* 0.5, 1.5, -0.25, 42, 0 and -0
FiniteFloats ==
    { Finite(FALSE, 1, 1), Finite(FALSE, 3, 1), Finite(TRUE, 1, 2),
      Finite(FALSE, 42, 0), Finite(FALSE, 0, 0), Finite(TRUE, 0, 0) }

FloatValues == FiniteFloats \cup {NaN, PosInf, NegInf}

\* the digits after the decimal point of rem / 2^shift
RECURSIVE FractionDigits(_, _)
FractionDigits(rem, shift) ==
    IF rem = 0 THEN <<>>
    ELSE LET t == rem * 10
         IN  <<DigitChars[(t \div 2^shift) + 1]>> \o FractionDigits(t % 2^shift, shift)

\* strconv.FormatFloat(v, 'f', -1, 32 or 64)
FormatFloat(f) ==
    IF f.class = "nan" THEN <<"N", "a", "N">>
    ELSE IF f.class = "inf"
    THEN <<IF f.neg THEN "-" ELSE "+", "I", "n", "f">>
    ELSE LET whole == FormatUint(<<0, 0, 0, f.num \div 2^f.shift>>)
             frac == FractionDigits(f.num % 2^f.shift, f.shift)
         IN  (IF f.neg THEN <<"-">> ELSE <<>>) \o whole
                \o (IF Len(frac) = 0 THEN <<>> ELSE <<".">> \o frac)

\* strconv.FormatBool(v)
FormatBool(v) ==
    IF v THEN <<"t", "r", "u", "e">> ELSE <<"f", "a", "l", "s", "e">>

(***************************************************************************)
(* encoding/json.Marshal on the values that reach it.  A result is         *)
(* [ok, text]; marshalling fails on a float that is NaN or infinite.       *)
(***************************************************************************)
MarshalFailed == [ok |-> FALSE, text |-> <<>>]
Marshalled(text) == [ok |-> TRUE, text |-> text]

MarshalFloat(f) ==
    IF f.class = "finite" THEN Marshalled(FormatFloat(f)) ELSE MarshalFailed

\* a decoded ExtensionObject value, after ua.DataChangeFilter as in the tests:
\* {Trigger, DeadbandType uint32, DeadbandValue float64}; isNil is Value == nil
NilValue ==
    [isNil |-> TRUE, Trigger |-> 0, DeadbandType |-> 0, DeadbandValue |-> Finite(FALSE, 0, 0)]

DataChangeFilter(trigger, type, value) ==
    [isNil |-> FALSE, Trigger |-> trigger, DeadbandType |-> type, DeadbandValue |-> value]

\* decoded values: two that marshal and differ, one that does not marshal
DecodedValues ==
    { DataChangeFilter(1, 1, Finite(FALSE, 1, 1)),
      DataChangeFilter(2, 1, Finite(FALSE, 3, 1)),
      DataChangeFilter(1, 2, NaN) }

\* json.Marshal of a decoded struct: its fields in declaration order
MarshalStruct(x) ==
    LET dv == MarshalFloat(x.DeadbandValue)
    IN  IF ~dv.ok THEN MarshalFailed
        ELSE Marshalled(<<"{", "\"Trigger\":">> \o FormatUint(<<0, 0, 0, x.Trigger>>)
                        \o <<",", "\"DeadbandType\":">> \o FormatUint(<<0, 0, 0, x.DeadbandType>>)
                        \o <<",", "\"DeadbandValue\":">> \o dv.text \o <<"}">>)

\* json.Marshal of an interface{} holding nil or a decoded struct
MarshalValue(x) ==
    IF x.isNil THEN Marshalled(<<"n", "u", "l", "l">>) ELSE MarshalStruct(x)

\* the elements of a JSON array, comma separated, from the marshalling
\* results rs of the elements; fails when one element fails
RECURSIVE MarshalElements(_)
MarshalElements(rs) ==
    IF Len(rs) = 0 THEN Marshalled(<<>>)
    ELSE LET head == Head(rs)
             rest == MarshalElements(Tail(rs))
         IN  IF ~head.ok \/ ~rest.ok THEN MarshalFailed
             ELSE Marshalled(head.text
                             \o (IF Len(rs) > 1 THEN <<",">> ELSE <<>>)
                             \o rest.text)

\* json.Marshal of a non-nil slice whose elements marshal to rs
MarshalSlice(rs) ==
    LET inner == MarshalElements(rs)
    IN  IF ~inner.ok THEN MarshalFailed
        ELSE Marshalled(<<"[">> \o inner.text \o <<"]">>)

(***************************************************************************)
(* ua.ExtensionObject, ua.Variant and ua.DataValue as the decoder sees     *)
(* them.                                                                   *)
(***************************************************************************)
\* a *ua.ExtensionObject: isNilPtr is the nil pointer, hasTypeID is
\* TypeID != nil, Value is the decoded representation or NilValue
ExtensionObject(hasTypeID, value) ==
    [isNilPtr |-> FALSE, hasTypeID |-> hasTypeID, Value |-> value]

NilExtensionObject == [isNilPtr |-> TRUE, hasTypeID |-> FALSE, Value |-> NilValue]

\* single structured values: with and without a TypeID, decoded or not
ExtensionObjects ==
    { ExtensionObject(t, x) : t \in BOOLEAN, x \in DecodedValues \cup {NilValue} }

\* elements of []*ua.ExtensionObject: a nil pointer, an undecoded object as
\* the tests build it ({Value: nil}), and the decoded ones
ArrayElements ==
    {NilExtensionObject, ExtensionObject(FALSE, NilValue)}
        \cup { ExtensionObject(TRUE, x) : x \in DecodedValues }

ExtensionObjectArrays == UNION { [1..n -> ArrayElements] : n \in 0..MaxArrayLen }

\* values of the default case: a nil interface (a null Variant) or []float64
OtherValue(isNil, floats) == [isNil |-> isNil, floats |-> floats]

OtherValues ==
    { OtherValue(TRUE, <<>>), OtherValue(FALSE, <<>>),
      OtherValue(FALSE, <<Finite(FALSE, 1, 1)>>),
      OtherValue(FALSE, <<Finite(FALSE, 1, 1), Finite(TRUE, 1, 2)>>),
      OtherValue(FALSE, <<NaN>>),
      OtherValue(FALSE, <<Finite(FALSE, 3, 1), PosInf>>) }

StringValues == { <<>>, <<"h", "e", "l", "l", "o">>, <<"4", "2">> }

\* what variant.Value() holds: shape is its dynamic type, and the field of
\* that shape carries the value (the other fields are unused)
BlankRaw ==
    [shape |-> "none",
     int   |-> [type |-> [name |-> "int8", signed |-> TRUE, width |-> 8], bits |-> <<0>>],
     float |-> Finite(FALSE, 0, 0),
     str   |-> <<>>,
     bool  |-> FALSE,
     eo    |-> NilExtensionObject,
     arr   |-> <<>>,
     other |-> OtherValue(TRUE, <<>>)]

RawValues ==
    { [BlankRaw EXCEPT !.shape = "int", !.int = v] : v \in IntValues }
    \cup { [BlankRaw EXCEPT !.shape = "float32", !.float = f] : f \in FloatValues }
    \cup { [BlankRaw EXCEPT !.shape = "float64", !.float = f] : f \in FloatValues }
    \cup { [BlankRaw EXCEPT !.shape = "string", !.str = t] : t \in StringValues }
    \cup { [BlankRaw EXCEPT !.shape = "bool", !.bool = v] : v \in BOOLEAN }
    \cup { [BlankRaw EXCEPT !.shape = "ExtensionObject", !.eo = e] : e \in ExtensionObjects }
    \cup { [BlankRaw EXCEPT !.shape = "ExtensionObjectArray", !.arr = a] :
                a \in ExtensionObjectArrays }
    \cup { [BlankRaw EXCEPT !.shape = "other", !.other = o] : o \in OtherValues }

\* ua.StatusCode values: StatusOK, two Bad codes, an Uncertain and a Good one
StatusCodes ==
    { "StatusOK", "StatusBadNodeIDUnknown", "StatusBadDataTypeIDUnknown",
      "StatusUncertainLastUsableValue", "StatusGoodClamped" }

\* *ua.DataValue: hasVariant is Value != nil
DataValues ==
    { [hasVariant |-> TRUE, Status |-> st, raw |-> r] : st \in StatusCodes, r \in RawValues }
    \cup { [hasVariant |-> FALSE, Status |-> st, raw |-> BlankRaw] : st \in StatusCodes }

(***************************************************************************)
(* getBytesFromValue.  A result is [outcome, b, tagType, logs]: outcome is *)
(* "return" or "panic" (a nil pointer dereference), logs the severities    *)
(* logged, in order.                                                       *)
(***************************************************************************)
Returned(b, tagType, logs) ==
    [outcome |-> "return", b |-> b, tagType |-> tagType, logs |-> logs]

Panicked(logs) ==
    [outcome |-> "panic", b |-> NilBytes, tagType |-> "", logs |-> logs]

\* a branch of the type switch that leaves the switch with b and tagType set
Fallthrough(b, tagType) ==
    [outcome |-> "continue", b |-> b, tagType |-> tagType, logs |-> <<>>]

\* faulty variant: only the Bad codes count as not OK
StatusIsOKBadOnly(status) ==
    status \notin {"StatusBadNodeIDUnknown", "StatusBadDataTypeIDUnknown"}

\* errors.Is(dataValue.Status, ua.StatusOK)
StatusIsOK(status) == status = "StatusOK"

\* case *ua.ExtensionObject
DecodeExtensionObject(b, v) ==
    IF v.Value.isNil
    THEN \* the Warnf arguments read v.TypeID.NodeID before anything is logged
         IF ~v.hasTypeID THEN Panicked(<<>>)
         ELSE Returned(NilBytes, "", <<"warn">>)
    ELSE LET m == MarshalStruct(v.Value)
         IN  IF ~m.ok THEN Returned(NilBytes, "", <<"error">>)
             ELSE Fallthrough(AppendBytes(b, m.text), "string")

\* faulty variant: the filter tests eo != nil only
FilterDecodedKeepNonNilPointers(v) ==
    LET RECURSIVE Loop(_, _)
        Loop(i, acc) ==
            IF i > Len(v) THEN acc
            ELSE Loop(i + 1, IF ~v[i].isNilPtr THEN Append(acc, v[i].Value) ELSE acc)
    IN  Loop(1, <<>>)

\* the filter loop: decoded = append(decoded, eo.Value) for each eo in order
\* with eo != nil && eo.Value != nil
FilterDecoded(v) ==
    LET RECURSIVE Loop(_, _)
        Loop(i, acc) ==
            IF i > Len(v) THEN acc
            ELSE Loop(i + 1, IF ~v[i].isNilPtr /\ ~v[i].Value.isNil
                             THEN Append(acc, v[i].Value) ELSE acc)
    IN  Loop(1, <<>>)

\* case []*ua.ExtensionObject
DecodeExtensionObjectArray(b, v) ==
    LET kept == FilterDecoded(v)
    IN  IF Len(kept) = 0 THEN Returned(NilBytes, "", <<"warn">>)
        ELSE LET m == MarshalSlice([i \in 1..Len(kept) |-> MarshalValue(kept[i])])
             IN  IF ~m.ok THEN Returned(NilBytes, "", <<"error">>)
                 ELSE Fallthrough(AppendBytes(b, m.text), "string")

\* default: json.Marshal(v)
DecodeOther(b, v) ==
    LET m == IF v.isNil THEN Marshalled(<<"n", "u", "l", "l">>)
             ELSE MarshalSlice([i \in 1..Len(v.floats) |-> MarshalFloat(v.floats[i])])
    IN  IF ~m.ok THEN Returned(NilBytes, "", <<"error">>)
        ELSE Fallthrough(AppendBytes(b, m.text), "string")

\* switch v := variant.Value().(type)
TypeSwitch(b, raw) ==
    CASE raw.shape \in {"float32", "float64"} ->
            Fallthrough(AppendBytes(b, FormatFloat(raw.float)), "number")
      [] raw.shape = "string" -> Fallthrough(AppendBytes(b, raw.str), "string")
      [] raw.shape = "bool" -> Fallthrough(AppendBytes(b, FormatBool(raw.bool)), "bool")
      [] raw.shape = "int" -> Fallthrough(AppendBytes(b, FormatInteger(raw.int)), "number")
      [] raw.shape = "ExtensionObject" -> DecodeExtensionObject(b, raw.eo)
      [] raw.shape = "ExtensionObjectArray" -> DecodeExtensionObjectArray(b, raw.arr)
      [] OTHER -> DecodeOther(b, raw.other)

\* if b == nil { log; return nil, "" }; return b, tagType
FinalGuard(b, tagType) ==
    IF b.nil THEN Returned(NilBytes, "", <<"error">>)
    ELSE Returned(b, tagType, <<>>)

getBytesFromValue(dv) ==
    IF ~dv.hasVariant THEN Returned(NilBytes, "", <<"error">>)
    ELSE IF ~StatusIsOK(dv.Status) THEN Returned(NilBytes, "", <<"warn">>)
    ELSE LET sw == TypeSwitch(MakeBytes, dv.raw)
         IN  IF sw.outcome = "continue" THEN FinalGuard(sw.b, sw.tagType)
             ELSE sw

(***************************************************************************)
(* Read.  An error is the chain errors.Is walks, outermost first: wrapping *)
(* layers (fmt.Errorf with %w and the like) around a leaf; <<>> is nil.    *)
(* The outcomes of g.Client.Read and g.Close are inputs of the call.       *)
(***************************************************************************)
NilError == <<>>

ErrNotConnected == <<"service.ErrNotConnected">>

\* the ua.StatusCode values the switch names, in the order of its cases
SessionFatalCodes ==
    << "StatusBadSessionIDInvalid", "StatusBadCommunicationError",
       "StatusBadConnectionClosed", "StatusBadTimeout",
       "StatusBadConnectionRejected", "StatusBadServerNotConnected" >>

\* leaves g.Client.Read can fail with: the six codes above, two other status
\* codes, the context errors and a transport error
ErrorLeaves ==
    { SessionFatalCodes[i] : i \in 1..Len(SessionFatalCodes) }
        \cup { "StatusBadRequestTimeout", "StatusBadNodeIDUnknown",
               "context.Canceled", "context.DeadlineExceeded", "io.EOF" }

ReadErrors ==
    { [i \in 1..(n + 1) |-> IF i <= n THEN "wrap" ELSE leaf] :
        n \in 0..MaxWrap, leaf \in ErrorLeaves }

CloseErrors == { NilError, <<"close failed">> }

\* *ua.ReadResponse: nil, or its Results
NilResponse == [isNil |-> TRUE, Results |-> <<>>]
Response(results) == [isNil |-> FALSE, Results |-> results]

Responses ==
    { NilResponse, Response(<<>>), Response(<<"dv1">>),
      Response(<<"dv1", "dv2">>), Response(<<"dv2", "dv1">>) }

\* faulty variant: err == target, without unwrapping
ErrorsIsOutermostOnly(err, target) == Len(err) > 0 /\ Head(err) = target

\* errors.Is(err, target): err or an error it wraps equals target
RECURSIVE ErrorsIs(_, _)
ErrorsIs(err, target) ==
    IF Len(err) = 0 THEN FALSE
    ELSE Head(err) = target \/ ErrorsIs(Tail(err), target)

\* faulty variant: request timeouts and context deadlines also tear down
SwitchMatchesAnyTimeout(err) ==
    \/ \E i \in 1..Len(SessionFatalCodes) : ErrorsIs(err, SessionFatalCodes[i])
    \/ ErrorsIs(err, "StatusBadRequestTimeout")
    \/ ErrorsIs(err, "context.DeadlineExceeded")

\* whether err is, or wraps, one of the codes
IsOrWraps(err, codes) == \E i \in 1..Len(err) : err[i] \in codes

\* whether one of the six cases of the switch is taken
SwitchMatches(err) ==
    \E i \in 1..Len(SessionFatalCodes) : ErrorsIs(err, SessionFatalCodes[i])

\* what one Read call returns and does: closes counts its calls of g.Close
ReadResult(resp, err, closes, logs) ==
    [resp |-> resp, err |-> err, closes |-> closes, logs |-> logs]

\* faulty variant: a failing Close has its error returned
OnSessionFatalReturnsCloseError(closeErr) ==
    ReadResult(NilResponse, IF closeErr = NilError THEN ErrNotConnected ELSE closeErr,
               1, <<"error">>)

\* _ = g.Close(ctx); return nil, service.ErrNotConnected
OnSessionFatal(closeErr) == ReadResult(NilResponse, ErrNotConnected, 1, <<"error">>)

\* faulty variant: return nil, nil
OnSuccessDropsResponse(resp) == ReadResult(NilResponse, NilError, 0, <<>>)

\* return resp, nil
OnSuccess(resp) == ReadResult(resp, NilError, 0, <<>>)

\* Read, given what g.Client.Read returned (resp, err) and what g.Close
\* would return (closeErr)
Read(resp, err, closeErr) ==
    IF err # NilError
    THEN IF SwitchMatches(err) THEN OnSessionFatal(closeErr)
         ELSE ReadResult(NilResponse, err, 0, <<"error">>)
    ELSE OnSuccess(resp)

(***************************************************************************)
(* The state machines.                                                     *)
(***************************************************************************)
NoResult == [outcome |-> "none", b |-> NilBytes, tagType |-> "", logs |-> <<>>]

NoCall ==
    [op |-> "none", resp |-> NilResponse, err |-> NilError, closeErr |-> NilError,
     out |-> ReadResult(NilResponse, NilError, 0, <<>>)]

IdleDataValue == [hasVariant |-> FALSE, Status |-> "StatusOK", raw |-> BlankRaw]

\* the connection after construction: no Read made, nothing being decoded
Init ==
    /\ dataValue = IdleDataValue
    /\ decoded = NoResult
    /\ dpc = "idle"
    /\ last = NoCall
    /\ reads = 0
    /\ closeCalls = 0
    /\ fatalReads = 0

\* one call of OPCUAConnection.Read
ReadCall ==
    /\ reads < MaxReads
    /\ \E resp \in Responses, err \in ReadErrors \cup {NilError}, closeErr \in CloseErrors :
          LET out == Read(resp, err, closeErr)
          IN  /\ last' = [op |-> "Read", resp |-> resp, err |-> err,
                          closeErr |-> closeErr, out |-> out]
              /\ closeCalls' = closeCalls + out.closes
              /\ fatalReads' = fatalReads +
                    (IF IsOrWraps(err, { SessionFatalCodes[i] : i \in 1..Len(SessionFatalCodes) })
                     THEN 1 ELSE 0)
    /\ reads' = reads + 1
    /\ UNCHANGED <<dataValue, decoded, dpc>>

Next == ReadCall

Spec == Init /\ [][Next]_vars

\* the decoder applied to one data value drawn from DataValues
DecodeInit ==
    /\ dataValue \in DataValues
    /\ decoded = NoResult
    /\ dpc = "call"
    /\ last = NoCall
    /\ reads = 0
    /\ closeCalls = 0
    /\ fatalReads = 0

\* one call of OPCUAConnection.getBytesFromValue
DecodeCall ==
    /\ dpc = "call"
    /\ decoded' = getBytesFromValue(dataValue)
    /\ dpc' = "done"
    /\ UNCHANGED <<dataValue, last, reads, closeCalls, fatalReads>>

DecodeNext == DecodeCall

DecodeSpec == DecodeInit /\ [][DecodeNext]_vars

(***************************************************************************)
(* Vocabulary of the properties.                                           *)
(***************************************************************************)
\* the Suppressed result: nil payload and empty tagType
Suppressed(r) == r.outcome = "return" /\ r.b.nil /\ r.tagType = ""

Decoded == dpc = "done"

DecodedOK == Decoded /\ dataValue.hasVariant /\ dataValue.Status = "StatusOK"

\* the six session-fatal status codes
SixFatalCodes ==
    { "StatusBadSessionIDInvalid", "StatusBadCommunicationError",
      "StatusBadConnectionClosed", "StatusBadTimeout",
      "StatusBadConnectionRejected", "StatusBadServerNotConnected" }

ReadMade == last.op = "Read"
ReadFailed == ReadMade /\ last.err # NilError
ReadFailedFatal == ReadFailed /\ IsOrWraps(last.err, SixFatalCodes)
ReadFailedOther == ReadFailed /\ ~IsOrWraps(last.err, SixFatalCodes)

\* C1: a read failure that is or wraps one of the six session-fatal codes
\* makes Read call Close exactly once and return a nil response with
\* service.ErrNotConnected, never the original error.
C1_FatalClosesOnceAndSignals ==
    ReadFailedFatal =>
        /\ last.out.closes = 1
        /\ last.out.resp = NilResponse
        /\ last.out.err = ErrNotConnected
        /\ last.out.err # last.err

C1_Witness ==
    /\ ReadFailedFatal
    /\ last.err = <<"wrap", "StatusBadTimeout">>
    /\ last.out.closes = 1
    /\ last.out.err = ErrNotConnected

\* C2: a read failure that is not one of the six session-fatal codes
\* (context cancellation and deadline errors included) makes Read return
\* the error it received unchanged without calling Close; over any
\* sequence of Read calls Close is invoked only by the session-fatal ones.
C2_OtherFailurePassesThrough ==
    /\ ReadFailedOther => last.out.closes = 0 /\ last.out.err = last.err
    /\ ReadMade /\ last.out.closes > 0 => ReadFailedFatal
    /\ closeCalls = fatalReads

C2_Witness ==
    /\ ReadFailedOther
    /\ last.err = <<"wrap", "context.DeadlineExceeded">>
    /\ last.out.err = last.err
    /\ reads = 2
    /\ closeCalls = 1

\* C8: when the underlying read succeeds, Read returns the response it was
\* given unchanged (same entries, order and length) with a nil error and
\* does not call Close.
C8_SuccessReturnsResponseUnchanged ==
    ReadMade /\ last.err = NilError =>
        /\ last.out.resp = last.resp
        /\ last.out.err = NilError
        /\ last.out.closes = 0

C8_Witness ==
    /\ ReadMade
    /\ last.err = NilError
    /\ last.resp = Response(<<"dv2", "dv1">>)
    /\ last.out.resp = Response(<<"dv2", "dv1">>)
    /\ closeCalls = 0

\* C9: on a session-fatal failure Read returns service.ErrNotConnected
\* whether Close succeeds or fails (never Close's error, never nil), and
\* every Read whose underlying read failed returns a non-nil error and a
\* nil response.
C9_CloseFailureNotPropagated ==
    /\ ReadFailed => last.out.err # NilError /\ last.out.resp = NilResponse
    /\ ReadFailedFatal =>
          /\ last.out.err = ErrNotConnected
          /\ last.out.err # last.closeErr

C9_Witness ==
    /\ ReadFailedFatal
    /\ last.closeErr # NilError
    /\ last.resp # NilResponse
    /\ last.out.err = ErrNotConnected
    /\ last.out.resp = NilResponse

\* C3: a value whose status is not OK decodes to Suppressed whatever the
\* shape of raw.
C3_NonOKStatusSuppressed ==
    Decoded /\ dataValue.Status # "StatusOK" => Suppressed(decoded)

C3_Witness ==
    /\ Decoded
    /\ dataValue.Status = "StatusGoodClamped"
    /\ dataValue.hasVariant
    /\ dataValue.raw.shape = "int"
    /\ Suppressed(decoded)

\* C4: an OK-status structured value whose decoded representation is
\* absent decodes to Suppressed and never aborts, also when it carries no
\* type identifier.
C4_UndecodableStructuredValueSuppressed ==
    DecodedOK /\ dataValue.raw.shape = "ExtensionObject" /\ dataValue.raw.eo.Value.isNil
        => Suppressed(decoded)

\* C5: a returned result is either Suppressed or a non-empty payload with a
\* tagType among "number", "string", "bool"; an empty byte sequence is
\* turned into Suppressed by the final guard.
C5_SuppressedOrNonEmptyPayload ==
    Decoded /\ decoded.outcome = "return" =>
        \/ Suppressed(decoded)
        \/ /\ ~decoded.b.nil
           /\ Len(decoded.b.data) > 0
           /\ decoded.tagType \in {"number", "string", "bool"}

\* the values of the elements of a whose decoded representation is present,
\* in their original relative order
PresentIndices(a) == { i \in 1..Len(a) : ~a[i].isNilPtr /\ ~a[i].Value.isNil }

PresentValues(a) ==
    LET idx == PresentIndices(a)
        Nth(k) == CHOOSE i \in idx : Cardinality({ j \in idx : j <= i }) = k
    IN  [k \in 1..Cardinality(idx) |-> a[Nth(k)].Value]

\* the JSON array of the values xs, when every one of them has a JSON text
JSONArrayOf(xs) == MarshalSlice([i \in 1..Len(xs) |-> MarshalValue(xs[i])])

DecodedArray == DecodedOK /\ dataValue.raw.shape = "ExtensionObjectArray"

\* C6, as stated: an OK-status array of structured values decodes to
\* Suppressed when no element has a decoded representation, and otherwise
\* to the JSON array of exactly the present elements, in order, with
\* tagType "string".
C6_ArrayKeepsPresentElements ==
    DecodedArray =>
        LET kept == PresentValues(dataValue.raw.arr)
        IN  IF Len(kept) = 0 THEN Suppressed(decoded)
            ELSE /\ decoded.outcome = "return"
                 /\ ~decoded.b.nil
                 /\ JSONArrayOf(kept).ok
                 /\ decoded.b.data = JSONArrayOf(kept).text
                 /\ decoded.tagType = "string"

\* C6, amended: as above when the present elements serialize; when their
\* serialization fails the result is Suppressed.
C6_ArrayKeepsPresentElementsThatSerialize ==
    DecodedArray =>
        LET kept == PresentValues(dataValue.raw.arr)
        IN  IF Len(kept) = 0 \/ ~JSONArrayOf(kept).ok THEN Suppressed(decoded)
            ELSE /\ decoded.outcome = "return"
                 /\ ~decoded.b.nil
                 /\ decoded.b.data = JSONArrayOf(kept).text
                 /\ decoded.tagType = "string"

C6_Witness ==
    /\ DecodedArray
    /\ dataValue.raw.arr =
          << ExtensionObject(TRUE, DataChangeFilter(2, 1, Finite(FALSE, 3, 1))),
             ExtensionObject(FALSE, NilValue),
             ExtensionObject(TRUE, DataChangeFilter(1, 1, Finite(FALSE, 1, 1))) >>
    /\ decoded.tagType = "string"
    /\ decoded.b.data =
          << "[", "{", "\"Trigger\":", "2", ",", "\"DeadbandType\":", "1", ",",
             "\"DeadbandValue\":", "1", ".", "5", "}", ",",
             "{", "\"Trigger\":", "1", ",", "\"DeadbandType\":", "1", ",",
             "\"DeadbandValue\":", "0", ".", "5", "}", "]" >>

\* reading a decimal text back as a number of five limbs
RECURSIVE TimesTenPlus(_, _)
TimesTenPlus(u, carry) ==
    IF Len(u) = 0 THEN <<>>
    ELSE LET n == Len(u)
             t == u[n] * 10 + carry
         IN  TimesTenPlus(SubSeq(u, 1, n - 1), t \div LimbBase) \o <<t % LimbBase>>

DigitValue(c) == CHOOSE d \in 0..9 : DigitChars[d + 1] = c

RECURSIVE ParseDecimal(_, _)
ParseDecimal(digits, acc) ==
    IF Len(digits) = 0 THEN acc
    ELSE ParseDecimal(Tail(digits), TimesTenPlus(acc, DigitValue(Head(digits))))

RECURSIVE AddLimbs(_, _, _)
AddLimbs(u, w, carry) ==
    IF Len(u) = 0 THEN <<>>
    ELSE LET n == Len(u)
             t == u[n] + w[n] + carry
         IN  AddLimbs(SubSeq(u, 1, n - 1), SubSeq(w, 1, n - 1), t \div LimbBase)
                \o <<t % LimbBase>>

FiveLimbs(bits) == [i \in 1..(5 - Len(bits)) |-> 0] \o bits

\* 2^width as five limbs
TwoToThe(width) ==
    CASE width = 8  -> <<0, 0, 0, 0, 256>>
      [] width = 16 -> <<0, 0, 0, 1, 0>>
      [] width = 32 -> <<0, 0, 1, 0, 0>>
      [] width = 64 -> <<1, 0, 0, 0, 0>>

\* whether the integer v, a two's complement pattern in its own width, is
\* negative: it is signed and its pattern is at least 2^(width - 1)
ValueIsNegative(v) ==
    /\ v.type.signed
    /\ v.bits[1] >= (IF v.type.width = 8 THEN 128 ELSE 32768)

\* text is the base-10 text of v: an optional minus sign (there exactly when
\* v is negative) and digits without leading zeros whose number is |v|
IsDecimalTextOf(text, v) ==
    LET minus == Len(text) > 0 /\ text[1] = "-"
        digits == IF minus THEN Tail(text) ELSE text
        n == ParseDecimal(digits, <<0, 0, 0, 0, 0>>)
    IN  /\ Len(digits) >= 1
        /\ \A i \in 1..Len(digits) : \E d \in 1..10 : DigitChars[d] = digits[i]
        /\ Len(digits) > 1 => digits[1] # "0"
        /\ minus <=> ValueIsNegative(v)
        /\ IF ValueIsNegative(v)
           THEN AddLimbs(n, FiveLimbs(v.bits), 0) = TwoToThe(v.type.width)
           ELSE n = FiveLimbs(v.bits)

\* C7: an OK-status integer scalar of any width, signed or unsigned, decodes
\* to tagType "number" and the base-10 text of its value, with the sign
\* right and no leading zeros, and no truncation or wrap-around.
C7_IntegerDecimalText ==
    DecodedOK /\ dataValue.raw.shape = "int" =>
        /\ decoded.outcome = "return"
        /\ decoded.tagType = "number"
        /\ ~decoded.b.nil
        /\ IsDecimalTextOf(decoded.b.data, dataValue.raw.int)

C7_Witness ==
    /\ DecodedOK
    /\ dataValue.raw.shape = "int"
    /\ dataValue.raw.int.type.name = "int8"
    /\ dataValue.raw.int.bits = <<214>>
    /\ decoded.tagType = "number"
    /\ decoded.b.data = <<"-", "4", "2">>

\* the severity the rule that suppresses dv logs at: an absent variant at
\* error, a non-OK status at warning, an undecodable structured value or an
\* array with no decodable element at warning, a serialization failure or
\* an empty final payload at error
SeverityOfRule(dv) ==
    IF ~dv.hasVariant THEN "error"
    ELSE IF dv.Status # "StatusOK" THEN "warn"
    ELSE IF dv.raw.shape = "ExtensionObject" /\ dv.raw.eo.Value.isNil THEN "warn"
    ELSE IF dv.raw.shape = "ExtensionObjectArray"
            /\ PresentIndices(dv.raw.arr) = {} THEN "warn"
    ELSE "error"

\* C10: the rules apply in order, first match winning; a call that ends
\* without a payload (Suppressed, or an empty final payload) logs exactly
\* once, at the severity of the rule that matched; a call that returns a
\* payload logs nothing.
C10_SuppressedLoggedOnceAtRuleSeverity ==
    Decoded /\ decoded.outcome = "return" =>
        IF Len(decoded.b.data) = 0
        THEN decoded.logs = <<SeverityOfRule(dataValue)>>
        ELSE decoded.logs = <<>>

====
